---- MODULE Spec2Model ----
(***************************************************************************)
(* State-machine model of the data_api service (src/data_api/main.py,      *)
(* src/data_api/models.py): the pooled get_db dependency, the request      *)
(* models, doc_hash, and the routes create, read, update, gohash and ecli  *)
(* running as interleaved requests against the ecli_document table.        *)
(*                                                                         *)
(* The model covers the service started with NO_ASYNCPG = 'false' (the     *)
(* default), so that startup_event has created DB_POOL.                    *)
(***************************************************************************)
EXTENDS Integers, Sequences, FiniteSets, TLC

(***************************************************************************)
(* Bounds of the model.                                                    *)
(***************************************************************************)
\* Number of request slots: requests in flight at the same time.
NumReq == 2
\* Size of the pool (config['postgresql']['max_size'], 20 in main.py:40,
\* overridable by the configuration file); scaled down.
max_size == 1
\* Rows the table may hold before no further create is started.
MaxRows == 2

(***************************************************************************)
(* Program constants.                                                      *)
(***************************************************************************)
VERSION == 1
salt == "OpenJusticePirates"
\* The only key the gate of create accepts.
test_key == "test_key"

(***************************************************************************)
(* JSON values of a request body: a type tag with an integer or a string.  *)
(***************************************************************************)
JInt(i) == [t |-> "int", i |-> i, s |-> ""]
JStr(s) == [t |-> "str", i |-> 0, s |-> s]
JAbsent == [t |-> "absent", i |-> 0, s |-> ""]
\* A value no field type converts: a JSON array.
JList == [t |-> "list", i |-> 0, s |-> ""]
\* Parsed meta: Python None and the empty dict.
JNone == [t |-> "null", i |-> 0, s |-> ""]
JObject == [t |-> "object", i |-> 0, s |-> ""]

(***************************************************************************)
(* Input samples.                                                          *)
(***************************************************************************)
\* <<country, court, year, identifier, text>> of the documents submitted: two
\* with the same identity fields and different texts, one with another
\* identifier.
Submissions ==
  {<<"BE", "RSCE", 2010, "1", "Lorem Ipsum">>,
   <<"BE", "RSCE", 2010, "1", "Dolor">>,
   <<"BE", "RSCE", 2010, "11", "Lorem Ipsum">>}
UserKeys == {test_key, "OIJAS-OIQWE"}
Versions == {VERSION, VERSION + 1}
\* Strings that parse as JSON, as meta must when given.
JsonTexts == {"{}"}
\* meta of the documents submitted: omitted (the schema example carries "{}").
Metas == {JAbsent}
Timestamp == JInt(1239120938)
\* Nonces doc_hash may draw: a sample of random.randint(1, 80000).
Nonces == {1, 11}
\* Values hash() of a str takes: a sample of the signed 64-bit range.
HashValues == <<-1, 2, 3>>
\* Hash seeds of the process (PYTHONHASHSEED, random by default).
Seeds == {0, 1}

Reqs == 1..NumReq
Conns == 1..max_size
Kinds == {"create", "read", "update", "gohash", "ecli"}

(***************************************************************************)
(* models.py: SubmitModel, ReadModel, UpdateModel.                         *)
(***************************************************************************)
SubmitModel ==
  [f \in {"_v", "_timestamp", "country", "court", "year", "identifier",
          "text", "user_key", "meta"} |->
     CASE f = "_v" -> "PositiveInt"
       [] f = "_timestamp" -> "datetime"
       [] f = "year" -> "int"
       [] f = "meta" -> "Json"
       [] OTHER -> "str"]

ReadModel ==
  [f \in {"_v", "_timestamp", "ecli"} |->
     CASE f = "_v" -> "PositiveInt"
       [] f = "_timestamp" -> "datetime"
       [] OTHER -> "str"]

UpdateModel ==
  [f \in {"_v", "_timestamp", "ecli"} |->
     CASE f = "_v" -> "PositiveInt"
       [] f = "_timestamp" -> "datetime"
       [] OTHER -> "str"]

\* FieldOk as it would be with every field declared optional (= None in
\* place of Field(...)).
FieldOkOptional(ty, x) ==
  \/ x.t = "absent"
  \/ CASE ty = "PositiveInt" -> x.t = "int" /\ x.i > 0
        [] ty = "int" -> x.t = "int"
        [] ty = "str" -> x.t = "str"
        [] ty = "datetime" -> x.t = "int"
        [] ty = "Json" -> x.t = "str" /\ x.s \in JsonTexts
        [] OTHER -> FALSE

\* Whether value x is accepted for a field of type ty.  Field(...) makes the
\* field required; meta: Json = None is optional.  The bodies sampled hold, for
\* each field, a value of its own type, no value, or an array, which no field
\* type converts; a timestamp is given as a UNIX epoch.
FieldOk(ty, x) ==
  CASE ty = "PositiveInt" -> x.t = "int" /\ x.i > 0
    [] ty = "int" -> x.t = "int"
    [] ty = "str" -> x.t = "str"
    [] ty = "datetime" -> x.t = "int"
    [] ty = "Json" -> x.t = "absent" \/ (x.t = "str" /\ x.s \in JsonTexts)
    [] OTHER -> FALSE

\* The fields of payload p the model rejects (the ValidationError's locations).
ValidationErrors(model, p) ==
  {f \in DOMAIN model : ~FieldOk(model[f], p[f])}

\* query.meta after validation: the parsed JSON, or None.
JsonLoads(x) == IF x.t = "absent" THEN JNone ELSE JObject

(***************************************************************************)
(* Request bodies.                                                         *)
(***************************************************************************)
SubmitPayload(v, country, court, year, identifier, text, user_key, meta) ==
  [f \in DOMAIN SubmitModel |->
     CASE f = "_v" -> JInt(v)
       [] f = "_timestamp" -> Timestamp
       [] f = "country" -> JStr(country)
       [] f = "court" -> JStr(court)
       [] f = "year" -> JInt(year)
       [] f = "identifier" -> JStr(identifier)
       [] f = "text" -> JStr(text)
       [] f = "user_key" -> JStr(user_key)
       [] OTHER -> meta]

WellFormedSubmits ==
  {SubmitPayload(v, d[1], d[2], d[3], d[4], d[5], k, m) :
     v \in Versions, d \in Submissions, k \in UserKeys, m \in Metas}

\* The example of SubmitModel.Config.
ExampleSubmit ==
  SubmitPayload(VERSION, "BE", "RSCE", 2010, "999.999", "Lorem Ipsum ...",
                "OIJAS-OIQWE", JStr("{}"))

RequiredSubmitFields == DOMAIN SubmitModel \ {"meta"}

\* The example with one field omitted, or given a value its type rejects.
BrokenSubmits ==
  {[ExampleSubmit EXCEPT ![f] = x] :
     f \in RequiredSubmitFields, x \in {JAbsent, JList}}
  \cup {[ExampleSubmit EXCEPT !["_v"] = JInt(0)],
        [ExampleSubmit EXCEPT !["meta"] = JStr("{")],
        [ExampleSubmit EXCEPT !["user_key"] = JStr(test_key),
                              !["text"] = JAbsent]}

SubmitPayloads == WellFormedSubmits \cup {ExampleSubmit} \cup BrokenSubmits

(***************************************************************************)
(* Pure functions of main.py.                                              *)
(***************************************************************************)
Abs(x) == IF x < 0 THEN -x ELSE x

\* create, line 114: the f-string that forms the ECLI.
BuildEcli(country, court, year, identifier) ==
  "ECLI:" \o country \o ":" \o court \o ":" \o ToString(year) \o ":"
    \o identifier

\* doc_hash, line 72: the string handed to hash().
HashInput(e, nonce) == e \o ToString(nonce) \o salt

\* hash(s) of a str in a process whose hash seed is seed.  The builtin is
\* opaque: it is a function of the string fixed for the life of the process.
\* The one taken here is one-to-one on the strings doc_hash builds from the
\* samples, so two tokens coincide only when hash() was given the same string.
PyHash(seed, s) == HashValues[((Len(s) + seed) % Len(HashValues)) + 1]

\* doc_hash with the nonce random.randint drew.
doc_hash(e, nonce, seed) == ToString(Abs(PyHash(seed, HashInput(e, nonce))))

\* gohash and ecli, the page template filled by str.format.
Page(res) ==
  "<!DOCTYPE html><html lang=\"en\"><body style=\"font-family:verdana\"><head><title>"
    \o res.ecli \o "</title></head><body>" \o res.text \o "</body></html>"

\* Whether string t occurs in string s.
Contains(s, t) ==
  \E i \in 1..(Len(s) - Len(t) + 1) : SubSeq(s, i, i + Len(t) - 1) = t

(***************************************************************************)
(* State.                                                                  *)
(***************************************************************************)
VARIABLES
  pc,         \* pc[r]: where request r is: idle, acquire, handler, execute, done
  kind,       \* kind[r]: the route of request r
  held,       \* held[r]: the pool connections request r holds
  args,       \* args[r]: the row create hands to db.execute (<<>> or <<row>>)
  resp,       \* resp[r]: the response of request r once done
  rows,       \* the table ecli_document, in insertion order
  poolFree,   \* DB_POOL: the connections free to acquire
  dbBlocked,  \* whether the database answers no statement at present
  hashseed,   \* the hash seed of this process
  created     \* the successful create calls: what was submitted, the hash returned

vars == <<pc, kind, held, args, resp, rows, poolFree, dbBlocked, hashseed, created>>

NoResp == [status |-> 0, body |-> <<>>]
Response(status, body) == [status |-> status, body |-> body]
\* FastAPI's answer to a RequestValidationError (errs, the fields at fault).
ValidationFailure(errs) == [status |-> 422, body |-> <<>>]
\* An exception that leaves the handler unhandled: 500.
ServerError(exc) == [status |-> 500, body |-> <<exc>>]

InFlight(r) == pc[r] \in {"acquire", "handler", "execute"}

Init ==
  /\ pc = [r \in Reqs |-> "idle"]
  /\ kind = [r \in Reqs |-> "none"]
  /\ held = [r \in Reqs |-> {}]
  /\ args = [r \in Reqs |-> <<>>]
  /\ resp = [r \in Reqs |-> NoResp]
  /\ rows = <<>>
  /\ poolFree = Conns
  /\ dbBlocked = FALSE
  /\ hashseed \in Seeds
  /\ created = <<>>

(***************************************************************************)
(* get_db: acquire on entry, release in the finally clause.                *)
(***************************************************************************)
\* A request for route k arrives and waits in DB_POOL.acquire().
Start(r, k) ==
  /\ pc[r] \in {"idle", "done"}
  /\ k = "create" =>
       Len(rows) + Cardinality({q \in Reqs : InFlight(q) /\ kind[q] = "create"})
         < MaxRows
  /\ pc' = [pc EXCEPT ![r] = "acquire"]
  /\ kind' = [kind EXCEPT ![r] = k]
  /\ resp' = [resp EXCEPT ![r] = NoResp]
  /\ UNCHANGED <<held, args, rows, poolFree, dbBlocked, hashseed, created>>

\* conn = await DB_POOL.acquire(): waits until a connection is free.
Acquire(r) ==
  /\ pc[r] = "acquire"
  /\ \E c \in poolFree :
       /\ poolFree' = poolFree \ {c}
       /\ held' = [held EXCEPT ![r] = held[r] \cup {c}]
  /\ pc' = [pc EXCEPT ![r] = "handler"]
  /\ UNCHANGED <<kind, args, resp, rows, dbBlocked, hashseed, created>>

\* Finish as it would be with the release after the yield and no try/finally:
\* an exception in the handler skips it.
FinishNoFinally(r, response) ==
  /\ pc' = [pc EXCEPT ![r] = "done"]
  /\ resp' = [resp EXCEPT ![r] = response]
  /\ poolFree' = IF response.status = 200 THEN poolFree \cup held[r] ELSE poolFree
  /\ held' = [held EXCEPT ![r] = IF response.status = 200 THEN {} ELSE held[r]]
  /\ args' = [args EXCEPT ![r] = <<>>]

\* The request ends with `response`; get_db's finally clause releases conn.
Finish(r, response) ==
  /\ pc' = [pc EXCEPT ![r] = "done"]
  /\ resp' = [resp EXCEPT ![r] = response]
  /\ poolFree' = poolFree \cup held[r]
  /\ held' = [held EXCEPT ![r] = {}]
  /\ args' = [args EXCEPT ![r] = <<>>]

(***************************************************************************)
(* The table ecli_document: the statements the routes send.                *)
(***************************************************************************)
\* Insert as it would be as an upsert on ecli (ON CONFLICT (ecli) DO UPDATE).
InsertUpsert(table, row) ==
  IF \E i \in 1..Len(table) : table[i].ecli = row.ecli
    THEN [i \in 1..Len(table) |->
            IF table[i].ecli = row.ecli THEN row ELSE table[i]]
    ELSE Append(table, row)

\* INSERT INTO ecli_document (...) VALUES ($1, ..., $9)
Insert(table, row) == Append(table, row)

\* SELECT ecli, text FROM ecli_document WHERE <col> = key, fetchrow: <<>> for
\* None, else one matching row (the statement has no ORDER BY).
Fetchrow(table, col, key) ==
  LET hits == {i \in 1..Len(table) : table[i][col] = key}
  IN  IF hits = {} THEN {<<>>}
      ELSE {<<[ecli |-> table[i].ecli, text |-> table[i].text]>> : i \in hits}

(***************************************************************************)
(* The routes.  A handler runs once get_db has yielded its connection; the *)
(* request's input is bound when the handler takes its parameters.         *)
(***************************************************************************)
\* Authorized as it would be with the key check left out.
AuthorizedAny(user_key) == TRUE

\* create, lines 106-112: the gate.
Authorized(user_key) == user_key = test_key

\* POST /create up to `await db.execute`: body p, nonce drawn by random.randint.
create(r, p, nonce) ==
  /\ pc[r] = "handler" /\ kind[r] = "create"
  /\ LET errs == ValidationErrors(SubmitModel, p) IN
     IF errs # {}
       THEN /\ Finish(r, ValidationFailure(errs))
            /\ UNCHANGED <<kind, rows, dbBlocked, hashseed, created>>
     ELSE IF ~Authorized(p["user_key"].s)
       THEN /\ Finish(r, Response(401, <<"bad user key">>))
            /\ UNCHANGED <<kind, rows, dbBlocked, hashseed, created>>
     ELSE LET e == BuildEcli(p["country"].s, p["court"].s, p["year"].i,
                             p["identifier"].s)
          IN  /\ args' = [args EXCEPT ![r] =
                   <<[ecli |-> e,
                      country |-> p["country"].s,
                      court |-> p["court"].s,
                      year |-> p["year"].i,
                      identifier |-> p["identifier"].s,
                      text |-> p["text"].s,
                      meta |-> JsonLoads(p["meta"]),
                      ukey |-> p["user_key"].s,
                      hash |-> doc_hash(e, nonce, hashseed)]>>]
              /\ pc' = [pc EXCEPT ![r] = "execute"]
              /\ UNCHANGED <<kind, held, resp, rows, poolFree, dbBlocked, hashseed,
                             created>>

\* create, lines 131-144: db.execute returns (ok) or raises, then the response.
execute(r, ok) ==
  /\ pc[r] = "execute" /\ kind[r] = "create"
  /\ ~dbBlocked
  /\ IF ok
       THEN /\ rows' = Insert(rows, args[r][1])
            /\ created' = Append(created,
                 [hash |-> args[r][1].hash,
                  country |-> args[r][1].country,
                  court |-> args[r][1].court,
                  year |-> args[r][1].year,
                  identifier |-> args[r][1].identifier,
                  text |-> args[r][1].text])
            /\ Finish(r, Response(200, <<"ok", args[r][1].hash>>))
       ELSE /\ Finish(r, ServerError("PostgresError"))
            /\ UNCHANGED <<rows, created>>
  /\ UNCHANGED <<kind, dbBlocked, hashseed>>

\* GET /read: the body is validated, the handler returns "ok".
read(r, p) ==
  /\ pc[r] = "handler" /\ kind[r] = "read"
  /\ LET errs == ValidationErrors(ReadModel, p) IN
     IF errs # {} THEN Finish(r, ValidationFailure(errs))
     ELSE Finish(r, Response(200, <<"ok">>))
  /\ UNCHANGED <<kind, rows, dbBlocked, hashseed, created>>

\* GET /update: the body is validated, the handler returns "ok".
update(r, p) ==
  /\ pc[r] = "handler" /\ kind[r] = "update"
  /\ LET errs == ValidationErrors(UpdateModel, p) IN
     IF errs # {} THEN Finish(r, ValidationFailure(errs))
     ELSE Finish(r, Response(200, <<"ok">>))
  /\ UNCHANGED <<kind, rows, dbBlocked, hashseed, created>>

\* The page of a fetched row; res['ecli'] of None raises TypeError.
Render(res) ==
  IF res = <<>> THEN ServerError("TypeError")
  ELSE Response(200, <<Page(res[1])>>)

\* GET /hash/{dochash}: fetchrow returns res, or raises (ok = FALSE).
gohash(r, dochash, res, ok) ==
  /\ pc[r] = "handler" /\ kind[r] = "gohash"
  /\ ~dbBlocked
  /\ res \in Fetchrow(rows, "hash", dochash)
  /\ IF ok THEN Finish(r, Render(res))
     ELSE Finish(r, ServerError("PostgresError"))
  /\ UNCHANGED <<kind, rows, dbBlocked, hashseed, created>>

\* GET /html/{ecli}: fetchrow returns res, or raises (ok = FALSE).
ecli(r, key, res, ok) ==
  /\ pc[r] = "handler" /\ kind[r] = "ecli"
  /\ ~dbBlocked
  /\ res \in Fetchrow(rows, "ecli", key)
  /\ IF ok THEN Finish(r, Render(res))
     ELSE Finish(r, ServerError("PostgresError"))
  /\ UNCHANGED <<kind, rows, dbBlocked, hashseed, created>>

(***************************************************************************)
(* The database, as the service sees it: it may stop answering.            *)
(***************************************************************************)
BlockDb ==
  /\ ~dbBlocked
  /\ dbBlocked' = TRUE
  /\ UNCHANGED <<pc, kind, held, args, resp, rows, poolFree, hashseed, created>>

UnblockDb ==
  /\ dbBlocked
  /\ dbBlocked' = FALSE
  /\ UNCHANGED <<pc, kind, held, args, resp, rows, poolFree, hashseed, created>>

(***************************************************************************)
(* Inputs of the read routes.                                              *)
(***************************************************************************)
ReadPayload(v, e) ==
  [f \in DOMAIN ReadModel |->
     CASE f = "_v" -> JInt(v)
       [] f = "_timestamp" -> Timestamp
       [] OTHER -> e]

EcliKeys ==
  {BuildEcli(d[1], d[2], d[3], d[4]) : d \in Submissions}
  \cup {"ECLI:BE:RSCE:2020:999.999"}

ReadPayloads ==
  {ReadPayload(v, JStr(e)) : v \in Versions \cup {0}, e \in EcliKeys}
  \cup {ReadPayload(VERSION, JAbsent), ReadPayload(VERSION, JList)}

\* Tokens a caller may ask /hash for: those doc_hash can give and one it cannot.
Tokens == {ToString(Abs(HashValues[i])) : i \in DOMAIN HashValues} \cup {"7"}

AllRows == {<<>>} \cup
  {<<[ecli |-> rows[i].ecli, text |-> rows[i].text]>> : i \in 1..Len(rows)}

Next ==
  \/ \E r \in Reqs, k \in Kinds : Start(r, k)
  \/ \E r \in Reqs : Acquire(r)
  \/ \E r \in Reqs, p \in SubmitPayloads, nonce \in Nonces : create(r, p, nonce)
  \/ \E r \in Reqs, ok \in BOOLEAN : execute(r, ok)
  \/ \E r \in Reqs, p \in ReadPayloads : read(r, p)
  \/ \E r \in Reqs, p \in ReadPayloads : update(r, p)
  \/ \E r \in Reqs, dochash \in Tokens, res \in AllRows, ok \in BOOLEAN :
       gohash(r, dochash, res, ok)
  \/ \E r \in Reqs, key \in EcliKeys, res \in AllRows, ok \in BOOLEAN :
       ecli(r, key, res, ok)
  \/ BlockDb
  \/ UnblockDb

Spec == Init /\ [][Next]_vars

(***************************************************************************)
(* Scheduling: the event loop runs every handler that can run, a statement *)
(* the database answers resumes its handler, and the pool hands a freed    *)
(* connection to a waiting request.  The database and the clients owe      *)
(* nothing: once blocked the database may stay blocked.                    *)
(***************************************************************************)
HandlerStep(r) ==
  \/ \E p \in SubmitPayloads, nonce \in Nonces : create(r, p, nonce)
  \/ \E ok \in BOOLEAN : execute(r, ok)
  \/ \E p \in ReadPayloads : read(r, p)
  \/ \E p \in ReadPayloads : update(r, p)
  \/ \E dochash \in Tokens, res \in AllRows, ok \in BOOLEAN :
       gohash(r, dochash, res, ok)
  \/ \E key \in EcliKeys, res \in AllRows, ok \in BOOLEAN : ecli(r, key, res, ok)

FairSpec ==
  Spec /\ \A r \in Reqs : SF_vars(Acquire(r)) /\ SF_vars(HandlerStep(r))

(***************************************************************************)
(* What was submitted by the i-th successful create.                       *)
(***************************************************************************)
EcliOf(c) == BuildEcli(c.country, c.court, c.year, c.identifier)

SameIdentity(c, d) ==
  /\ c.country = d.country
  /\ c.court = d.court
  /\ c.year = d.year
  /\ c.identifier = d.identifier

Issued == {created[i].hash : i \in 1..Len(created)}

(***************************************************************************)
(* C1.  For every hash a successful create returned for a submission, a    *)
(* lookup by that hash (SELECT ... WHERE hash = h, fetchrow) yields a row  *)
(* whose ecli is ECLI:<country>:<court>:<year>:<identifier> of that same   *)
(* submission, whatever other creates happened.                            *)
(***************************************************************************)
C1_LookupByHashReturnsSubmission ==
  \A i \in 1..Len(created) :
    \A res \in Fetchrow(rows, "hash", created[i].hash) :
      res # <<>> /\ res[1].ecli = EcliOf(created[i])

(***************************************************************************)
(* C2.  A lookup (gohash by a token no create returned, ecli by an ECLI    *)
(* never stored) whose SELECT finds no row ends with 404, never with an    *)
(* error.                                                                  *)
(***************************************************************************)
C2_MissingLookupIsNotFound ==
  [][\A r \in Reqs :
       /\ \A dochash \in Tokens \ Issued :
            gohash(r, dochash, <<>>, TRUE) => resp'[r].status = 404
       /\ \A key \in EcliKeys :
            ecli(r, key, <<>>, TRUE) => resp'[r].status = 404]_vars

(***************************************************************************)
(* C3.  A create whose body is well formed and whose user_key is not the   *)
(* authorized key ends with 401 at the gate and writes no row; the table   *)
(* changes only by the insert of a request that passed the gate, so every  *)
(* stored row carries the authorized key.                                  *)
(***************************************************************************)
C3_UnauthorizedCreateWritesNothing ==
  /\ [](\A i \in 1..Len(rows) : rows[i].ukey = test_key)
  /\ [][\A r \in Reqs, p \in WellFormedSubmits, nonce \in Nonces :
          (create(r, p, nonce) /\ p["user_key"].s # test_key)
            => /\ pc'[r] = "done"
               /\ resp'[r].status = 401
               /\ rows' = rows]_vars
  /\ [][rows' # rows =>
          \E r \in Reqs : /\ pc[r] = "execute"
                          /\ args[r][1].ukey = test_key
                          /\ rows' = Append(rows, args[r][1])]_vars

C3_Witness ==
  \E r \in Reqs :
    /\ kind[r] = "create" /\ pc[r] = "done"
    /\ resp[r].status = 401
    /\ Len(rows) > 0

(***************************************************************************)
(* C4.  Two separate successful creates carrying the same identity fields  *)
(* return different hash tokens, whatever nonces doc_hash drew.            *)
(***************************************************************************)
C4_SameIdentityDifferentHashes ==
  \A i, j \in 1..Len(created) :
    (i # j /\ SameIdentity(created[i], created[j]))
      => created[i].hash # created[j].hash

(***************************************************************************)
(* C5.  After a successful create the stored ECLI is the concatenation of  *)
(* the four identity fields, and every later GET /html/<that ECLI> that    *)
(* fetches a row renders a page containing the text of that submission.    *)
(***************************************************************************)
C5_RoundTripByEcli ==
  /\ [](\A i \in 1..Len(created) : rows[i].ecli = EcliOf(created[i]))
  /\ [][\A r \in Reqs, i \in 1..Len(created), res \in AllRows :
          ecli(r, EcliOf(created[i]), res, TRUE)
            => /\ resp'[r].status = 200
               /\ Contains(resp'[r].body[1], created[i].text)]_vars

OtherVersion(p) ==
  p["_v"].t = "int" /\ p["_v"].i > 0 /\ p["_v"].i # VERSION

C7_VersionMustMatch ==
  [][\A r \in Reqs :
       /\ \A p \in WellFormedSubmits, nonce \in Nonces :
            (create(r, p, nonce) /\ OtherVersion(p))
              => (pc'[r] = "done" /\ resp'[r].status = 422 /\ rows' = rows)
       /\ \A p \in ReadPayloads :
            (read(r, p) /\ OtherVersion(p)) => resp'[r].status = 422
       /\ \A p \in ReadPayloads :
            (update(r, p) /\ OtherVersion(p)) => resp'[r].status = 422]_vars

(***************************************************************************)
(* C8.  A request that waits in DB_POOL.acquire() while no connection is   *)
(* free and the database is blocked does not wait forever: it leaves the   *)
(* wait (with a failure) after a bounded time.                             *)
(***************************************************************************)
C8_NoRequestWaitsForever ==
  \A r \in Reqs :
    (pc[r] = "acquire" /\ poolFree = {} /\ dbBlocked) ~> (pc[r] # "acquire")

(***************************************************************************)
(* C9.  Each request holds at most one connection, no connection is held   *)
(* twice or held while free, the connections held never exceed max_size,   *)
(* and a request holds a connection only while its handler runs: it is     *)
(* released on every exit, so with no request in flight the pool is whole. *)
(***************************************************************************)
RECURSIVE HeldCount(_)
HeldCount(S) ==
  IF S = {} THEN 0
  ELSE LET r == CHOOSE q \in S : TRUE
       IN  Cardinality(held[r]) + HeldCount(S \ {r})

C9_ConnectionsScoped ==
  /\ \A r \in Reqs : Cardinality(held[r]) <= 1
  /\ HeldCount(Reqs) <= max_size
  /\ HeldCount(Reqs) + Cardinality(poolFree) = max_size
  /\ \A r, q \in Reqs : r # q => held[r] \cap held[q] = {}
  /\ \A r \in Reqs : held[r] \cap poolFree = {}
  /\ \A r \in Reqs : pc[r] \in {"idle", "acquire", "done"} => held[r] = {}
  /\ \A r \in Reqs : pc[r] \in {"handler", "execute"} => held[r] # {}
  /\ (\A r \in Reqs : ~InFlight(r)) => poolFree = Conns

C9_Witness ==
  \E r, q \in Reqs :
    /\ pc[r] = "done" /\ resp[r] = ServerError("TypeError")
    /\ pc[q] = "done" /\ resp[q].status = 401
    /\ poolFree = Conns

(***************************************************************************)
(* C10.  The table is append-only and a row's hash never changes: a row is *)
(* added only by a successful create, one row for each, carrying the hash  *)
(* the response returns; read, update, gohash and ecli leave the table as  *)
(* it is; no step changes or removes a row.                                *)
(***************************************************************************)
C10_AppendOnly ==
  /\ [](/\ Len(created) = Len(rows)
        /\ \A i \in 1..Len(rows) : rows[i].hash = created[i].hash)
  /\ [][\/ rows' = rows
        \/ \E r \in Reqs :
             /\ execute(r, TRUE)
             /\ Len(rows') = Len(rows) + 1
             /\ SubSeq(rows', 1, Len(rows)) = rows
             /\ resp'[r] = Response(200, <<"ok", rows'[Len(rows')].hash>>)]_vars
  /\ [][\A r \in Reqs :
          (kind[r] \in {"read", "update", "gohash", "ecli"} /\ pc'[r] # pc[r])
            => rows' = rows]_vars
  /\ [][\A r \in Reqs :
          (kind[r] = "create" /\ pc[r] # "done" /\ pc'[r] = "done"
             /\ resp'[r].status # 200)
            => rows' = rows]_vars

C10_Witness ==
  /\ Len(rows) = MaxRows
  /\ \E r, q \in Reqs :
       /\ kind[r] = "update" /\ pc[r] = "done" /\ resp[r].status = 200
       /\ kind[q] = "gohash" /\ pc[q] = "done" /\ resp[q].status = 200

====
